---- MODULE Spec2Model ----
(***************************************************************************)
(* Universal MCP gateway: session registry (McpClientManager), preset      *)
(* registry (PresetManager) and the aggregated chat loop (chatAggregated). *)
(* Every action is one synchronous run of the code between two awaits.     *)
(***************************************************************************)
EXTENDS Integers, Sequences, FiniteSets, TLC

\* ---------------------------------------------------------------- bounds
MaxSessions == 2      \* session ids handed out in one run
MaxConnecting == 2    \* connect attempts in flight at a time
MaxInFlight == 1      \* disconnect / refresh / callTool awaits in flight at a time
MaxPresetSessions == 3 \* session ids handed out in a run of the preset registry
MaxRequests == 11     \* replies of one chat request that ask for tool calls
MaxBigBatches == 1    \* replies of one chat request that ask for several calls
MaxToolErrors == 1    \* tool calls of one chat request the provider or transport fails

\* chatController.ts line 213
MAX_TOOL_ITERATIONS == 10

\* ------------------------------------------------------------- constants
NoSession == 0
UnknownId == 0

Tool(n, d) == [name |-> n, desc |-> d]

\* tool lists a provider may answer listTools with
ToolLists ==
  { << Tool("echo", 1) >>,
    << Tool("echo", 2), Tool("add", 2) >> }

ToolNames == {"echo", "add"}
RequestNames == ToolNames \cup {"frobnicate"}

TransportTypes == {"sse", "stdio"}

\* config.mcpPresets, in configuration order
Presets == << "A", "B", "C" >>
PresetIds == {"A", "B", "C"}
PresetTransport == [A |-> "sse", B |-> "stdio", C |-> "streamable-http"]
PresetAutoConnect == [A |-> TRUE, B |-> TRUE, C |-> FALSE]
FanoutKinds == {"auto", "all"}

\* the presets the connect / disconnect endpoints are called with
CalledPresets == {"A"}

VARIABLES
  sessions,     \* McpClientManager.sessions: keys of the Map, in insertion order
  obj,          \* the ActiveSession objects, by session id (1..Len(obj))
  connectOp,    \* position of the connectWithTransport call that made obj[id]
  discOps,      \* disconnect calls awaiting transport.close()
  refreshOps,   \* refreshTools calls awaiting client.listTools()
  invokes,      \* callTool calls awaiting client.callTool()
  ret,          \* outcome of the call that returned or routed last
  connectedLog, \* ids in the order their status became connected
  teardown,     \* the disconnectAll call of the graceful shutdown
  presetSessions, \* PresetManager.presetSessions: preset id -> session id
  presetOps,    \* connectPreset calls awaiting connectWithConfig (before: the
                \* mapping the call found)
  fanout,       \* the Promise.allSettled of autoConnectPresets / connectAllPresets
  lastConn,     \* per preset, the id its last undisturbed connectPreset returned
  chat          \* the locals of one chatAggregated request

presetVars == << presetSessions, presetOps, fanout, lastConn >>

vars == << sessions, obj, connectOp, discOps, refreshOps, invokes, ret,
           connectedLog, teardown, presetVars, chat >>

\* ------------------------------------------------------------- helpers
Ids == 1..Len(obj)

SeqToSet(s) == { s[i] : i \in 1..Len(s) }

InRegistry(id) == id \in SeqToSet(sessions)

RECURSIVE Without(_, _)
Without(s, x) ==
  IF s = << >> THEN << >>
  ELSE IF Head(s) = x THEN Without(Tail(s), x)
       ELSE << Head(s) >> \o Without(Tail(s), x)

Names(tl) == [i \in 1..Len(tl) |-> tl[i].name]

HasTool(tl, n) == \E i \in 1..Len(tl) : tl[i].name = n

NoCall == [status |-> "none", sid |-> NoSession, err |-> "none"]

\* chatAggregated before the request: iterations = 0, the accumulators empty
NoChat ==
  [pc |-> "idle", code |-> "none", tools |-> << >>, sentTools |-> << >>,
   iterations |-> 0,
   roundTrips |-> 0, toolCalls |-> << >>, idx |-> 0, call |-> NoCall,
   toolResults |-> << >>, allToolCalls |-> << >>, allToolResults |-> << >>,
   allToolsUsed |-> << >>, nextId |-> 1, big |-> 0, errs |-> 0,
   last |-> "none", warned |-> FALSE, handler |-> "none", sessionId |-> NoSession]

\* no disconnectAll yet; keys: the ids it disconnects, born: the ids handed
\* out before it was called
NoTeardown == [st |-> "idle", keys |-> {}, born |-> 0]

NoResult == [outcome |-> "none", sid |-> NoSession]

\* a returned value or a thrown McpError; detail is what the message lists
RetD(op, sid, code, aux, detail) ==
  [op |-> op, sid |-> sid, code |-> code, aux |-> aux, detail |-> detail]

Ret(op, sid, code, aux) == RetD(op, sid, code, aux, {})

\* ------------------------------------------------- getAllTools / findOwner
RECURSIVE TagTools(_, _)
TagTools(tl, sid) ==
  IF tl = << >> THEN << >>
  ELSE << [name |-> Head(tl).name, desc |-> Head(tl).desc, sessionId |-> sid] >>
       \o TagTools(Tail(tl), sid)

RECURSIVE AllToolsOf_Mut(_)
AllToolsOf_Mut(keys) ==
  IF keys = << >> THEN << >>
  ELSE TagTools(obj[Head(keys)].tools, Head(keys)) \o AllToolsOf_Mut(Tail(keys))

RECURSIVE AllToolsOf(_)
AllToolsOf(keys) ==
  IF keys = << >> THEN << >>
  ELSE (IF obj[Head(keys)].status = "connected"
          THEN TagTools(obj[Head(keys)].tools, Head(keys))
          ELSE << >>)
       \o AllToolsOf(Tail(keys))

getAllTools == AllToolsOf(sessions)

RECURSIVE FindIn_Mut(_, _)
FindIn_Mut(keys, n) ==
  IF keys = << >> THEN NoSession
  ELSE IF HasTool(obj[Head(keys)].tools, n)
         THEN Head(keys)
         ELSE FindIn_Mut(Tail(keys), n)

RECURSIVE FindIn(_, _)
FindIn(keys, n) ==
  IF keys = << >> THEN NoSession
  ELSE IF obj[Head(keys)].status = "connected" /\ HasTool(obj[Head(keys)].tools, n)
         THEN Head(keys)
         ELSE FindIn(Tail(keys), n)

findSessionForTool_Mut(n) ==
  FindIn([i \in 1..Len(sessions) |-> sessions[Len(sessions) + 1 - i]], n)

findSessionForTool(n) == FindIn(sessions, n)

\* connect attempts that have neither returned nor failed
Connecting == { id \in Ids : connectOp[id].pc \notin {"returned", "failed"} }

CanConnect == Len(obj) < MaxSessions /\ Cardinality(Connecting) < MaxConnecting

CanAwait == Cardinality(discOps) + Cardinality(refreshOps) + Cardinality(invokes) < MaxInFlight

\* ------------------------------------------------------------------ Init
Init ==
  /\ sessions = << >>
  /\ obj = << >>
  /\ connectOp = << >>
  /\ discOps = {}
  /\ refreshOps = {}
  /\ invokes = {}
  /\ ret = Ret("none", NoSession, "none", {})
  /\ connectedLog = << >>
  /\ teardown = NoTeardown
  /\ presetSessions = [p \in PresetIds |-> NoSession]
  /\ presetOps = {}
  /\ fanout = [k \in FanoutKinds |->
                 [st |-> "idle", results |-> [p \in PresetIds |-> NoResult],
                  connected |-> << >>, failed |-> << >>]]
  /\ lastConn = [p \in PresetIds |-> NoSession]
  /\ chat = NoChat

\* ------------------------------------------------ connectWithTransport
\* lines 188-202: build the session object and store it before connecting
NewSession(ttype) ==
  [status |-> "connecting", tools |-> << >>, transportType |-> ttype,
   pid |-> FALSE, spawned |-> FALSE, closeAsked |-> FALSE]

NewConnectOp(entry, caller) ==
  [pc |-> "handshake", entry |-> entry, caller |-> caller, err |-> "none"]

StartSession(ttype, entry, caller) ==
  /\ obj' = Append(obj, NewSession(ttype))
  /\ sessions' = Append(sessions, Len(obj) + 1)
  /\ connectOp' = Append(connectOp, NewConnectOp(entry, caller))

\* connectSse: URL validation and transport construction, then connectWithTransport
ConnectSse(input) ==
  /\ UNCHANGED << discOps, refreshOps, invokes, connectedLog, teardown, presetVars, chat >>
  /\ IF input = "invalidUrl"
       THEN /\ ret' = Ret("connect", NoSession, "INVALID_URL", {})
            /\ UNCHANGED << sessions, obj, connectOp >>
       ELSE IF input = "ctorThrows"
       THEN /\ ret' = Ret("connect", NoSession, "TRANSPORT_ERROR", {})
            /\ UNCHANGED << sessions, obj, connectOp >>
       ELSE /\ CanConnect
            /\ StartSession("sse", "sse", "api")
            /\ UNCHANGED ret

\* connectStdio: transport construction, then connectWithTransport
ConnectStdio(input) ==
  /\ UNCHANGED << discOps, refreshOps, invokes, connectedLog, teardown, presetVars, chat >>
  /\ IF input = "ctorThrows"
       THEN /\ ret' = Ret("connect", NoSession, "TRANSPORT_ERROR", {})
            /\ UNCHANGED << sessions, obj, connectOp >>
       ELSE /\ CanConnect
            /\ StartSession("stdio", "stdio", "api")
            /\ UNCHANGED ret

\* the catch block of connectWithTransport up to its await transport.close()
CatchBlock(o, id) ==
  [o EXCEPT ![id].status = "error", ![id].closeAsked = TRUE]

\* client.connect resolved: status = connected, then discoverTools runs up to
\* its await (or throws SESSION_NOT_FOUND when the row is gone)
HandshakeResolved(id) ==
  /\ id \in Ids
  /\ connectOp[id].pc = "handshake"
  /\ obj' = [obj EXCEPT ![id].status = "connected",
                        ![id].spawned = (obj[id].transportType = "stdio")]
  /\ connectOp' = [connectOp EXCEPT
                     ![id].pc = IF InRegistry(id) THEN "listing" ELSE "caught",
                     ![id].err = IF InRegistry(id) THEN "none" ELSE "SESSION_NOT_FOUND"]
  /\ UNCHANGED << sessions, discOps, refreshOps, invokes, ret, teardown,
                  presetVars, chat >>

HandshakeOk(id) == HandshakeResolved(id) /\ UNCHANGED connectedLog

\* the same step, with the order in which sessions became connected recorded
HandshakeOkLogged(id) ==
  HandshakeResolved(id) /\ connectedLog' = Append(connectedLog, id)

\* client.connect rejected: the catch block runs (status = error, close asked)
HandshakeFail(id, spawned) ==
  /\ id \in Ids
  /\ connectOp[id].pc = "handshake"
  /\ spawned => obj[id].transportType = "stdio"
  /\ obj' = CatchBlock([obj EXCEPT ![id].spawned = spawned], id)
  /\ connectOp' = [connectOp EXCEPT ![id].pc = "closing",
                                    ![id].err = "CONNECTION_FAILED"]
  /\ UNCHANGED << sessions, discOps, refreshOps, invokes, ret,
                  connectedLog, teardown, presetVars, chat >>

StoreTools_Mut(old, tl) ==
  IF old = << >> \/ tl = << >> THEN tl
  ELSE [i \in 1..Len(old) |-> IF i = 1 THEN tl[1] ELSE old[i]]

\* discoverTools line 262: session.tools = response.tools
StoreTools(old, tl) == tl

\* discoverTools: client.listTools resolved, the cached list is replaced
ListToolsOk(id, tl) ==
  /\ id \in Ids
  /\ connectOp[id].pc = "listing"
  /\ obj' = [obj EXCEPT ![id].tools = StoreTools(obj[id].tools, tl)]
  /\ connectOp' = [connectOp EXCEPT ![id].pc = "resolved"]
  /\ UNCHANGED << sessions, discOps, refreshOps, invokes, ret,
                  connectedLog, teardown, presetVars, chat >>

\* discoverTools: client.listTools rejected, TOOL_DISCOVERY_FAILED is thrown
ListToolsFail(id) ==
  /\ id \in Ids
  /\ connectOp[id].pc = "listing"
  /\ connectOp' = [connectOp EXCEPT ![id].pc = "caught",
                                    ![id].err = "TOOL_DISCOVERY_FAILED"]
  /\ UNCHANGED << sessions, obj, discOps, refreshOps, invokes, ret,
                  connectedLog, teardown, presetVars, chat >>

\* the rejection of discoverTools reaches the catch block
ConnectCatch(id) ==
  /\ id \in Ids
  /\ connectOp[id].pc = "caught"
  /\ obj' = CatchBlock(obj, id)
  /\ connectOp' = [connectOp EXCEPT ![id].pc = "closing"]
  /\ UNCHANGED << sessions, discOps, refreshOps, invokes, ret,
                  connectedLog, teardown, presetVars, chat >>

DeleteRow_Mut(s, id) == s

\* the row removal of the catch block
DeleteRow(s, id) == Without(s, id)

\* transport.close() settled (its failure is ignored): delete the row, rethrow
ConnectCleanup(id) ==
  /\ id \in Ids
  /\ connectOp[id].pc = "closing"
  /\ sessions' = DeleteRow(sessions, id)
  /\ connectOp' = [connectOp EXCEPT ![id].pc = "failed"]
  /\ UNCHANGED << ret, obj, discOps, refreshOps, invokes, connectedLog, teardown, presetVars, chat >>

\* connectWithTransport resolved; connectStdio records the pid on the row
ConnectReturn(id) ==
  /\ id \in Ids
  /\ connectOp[id].pc = "resolved"
  /\ obj' = IF connectOp[id].entry = "stdio" /\ InRegistry(id) /\ obj[id].spawned
              THEN [obj EXCEPT ![id].pid = TRUE]
              ELSE obj
  /\ connectOp' = [connectOp EXCEPT ![id].pc = "returned"]
  /\ UNCHANGED << ret, sessions, discOps, refreshOps, invokes, connectedLog, teardown, presetVars, chat >>

\* ------------------------------------------------------------ disconnect
CloseRequested_Mut(o, sid) ==
  [o EXCEPT ![sid].closeAsked = TRUE, ![sid].status = "disconnected"]

\* line 403 up to the await: transport.close() is called, the status is not
\* touched before the close has settled
CloseRequested(o, sid) == [o EXCEPT ![sid].closeAsked = TRUE]

DisconnectFinally_Mut(s, id, closeOk) == IF closeOk THEN Without(s, id) ELSE s

\* the registry after the try / catch / finally of disconnect, for either
\* outcome of transport.close()
DisconnectFinally(s, id, closeOk) == Without(s, id)

DisconnectCall_Mut(sid, caller) ==
  IF ~InRegistry(sid)
    THEN /\ ret' = IF caller = "api"
                     THEN Ret("disconnect", sid, "ok", {})
                     ELSE ret
         /\ UNCHANGED << obj, discOps >>
    ELSE /\ obj' = CloseRequested(obj, sid)
         /\ discOps' = discOps \cup { [sid |-> sid, caller |-> caller, pc |-> "closing"] }
         /\ UNCHANGED ret

\* disconnect up to its await transport.close()
DisconnectCall(sid, caller) ==
  IF ~InRegistry(sid)
    THEN /\ ret' = IF caller = "api"
                     THEN Ret("disconnect", sid, "SESSION_NOT_FOUND", {})
                     ELSE ret
         /\ discOps' = IF caller = "api"
                         THEN discOps
                         ELSE discOps \cup { [sid |-> sid, caller |-> caller,
                                              pc |-> "rejected"] }
         /\ UNCHANGED obj
    ELSE /\ obj' = CloseRequested(obj, sid)
         /\ discOps' = discOps \cup { [sid |-> sid, caller |-> caller, pc |-> "closing"] }
         /\ UNCHANGED ret

\* a disconnect step happened: no connectPreset call is undisturbed any more
Disturb ==
  /\ lastConn' = [p \in PresetIds |-> NoSession]
  /\ presetOps' = { [o EXCEPT !.dirty = TRUE] : o \in presetOps }

Disconnect(sid) ==
  /\ sid \in Ids \cup {UnknownId}
  /\ InRegistry(sid) => CanAwait
  /\ DisconnectCall(sid, "api")
  /\ Disturb
  /\ UNCHANGED << sessions, connectOp, refreshOps, invokes, connectedLog, teardown,
                  presetSessions, fanout, chat >>

\* transport.close() settled: status on success, log on failure, always delete
DisconnectSettle(d, closeOk) ==
  /\ d \in discOps
  /\ d.pc = "closing"
  /\ obj' = IF closeOk THEN [obj EXCEPT ![d.sid].status = "disconnected"] ELSE obj
  /\ sessions' = DisconnectFinally(sessions, d.sid, closeOk)
  /\ discOps' = IF d.caller = "api"
                  THEN discOps \ {d}
                  ELSE (discOps \ {d}) \cup { [d EXCEPT !.pc = "done"] }
  /\ ret' = IF d.caller = "api"
              THEN Ret("disconnect", d.sid, "ok", IF closeOk THEN {} ELSE {"closeFailed"})
              ELSE ret
  /\ Disturb
  /\ UNCHANGED << connectOp, refreshOps, invokes, connectedLog, teardown,
                  presetSessions, fanout, chat >>

SessionGuard_Mut(sid) ==
  IF ~InRegistry(sid) THEN "SESSION_NOT_FOUND"
  ELSE IF obj[sid].status = "error" THEN "SESSION_NOT_CONNECTED"
  ELSE "ok"

\* getTools lines 284-296: absent from the map, or present with a status
\* other than connected
SessionGuard(sid) ==
  IF ~InRegistry(sid) THEN "SESSION_NOT_FOUND"
  ELSE IF obj[sid].status # "connected" THEN "SESSION_NOT_CONNECTED"
  ELSE "ok"

\* ---------------------------------------------------------------- getTools
\* getTools: the two guards, then the cached list
GetTools(sid) ==
  /\ sid \in Ids \cup {UnknownId}
  /\ ret' = IF SessionGuard(sid) = "ok"
              THEN Ret("getTools", sid, "ok", SeqToSet(Names(obj[sid].tools)))
              ELSE Ret("getTools", sid, SessionGuard(sid), {})
  /\ UNCHANGED << sessions, obj, connectOp, discOps, refreshOps, invokes,
                  connectedLog, teardown, presetVars, chat >>

\* ---------------------------------------------------------- refreshTools
\* refreshTools: the two guards, then discoverTools up to its await
RefreshTools(sid) ==
  /\ sid \in Ids \cup {UnknownId}
  /\ IF ~InRegistry(sid)
       THEN /\ ret' = Ret("refresh", NoSession, "SESSION_NOT_FOUND", {})
            /\ UNCHANGED refreshOps
       ELSE IF obj[sid].status # "connected"
       THEN /\ ret' = Ret("refresh", NoSession, "SESSION_NOT_CONNECTED", {})
            /\ UNCHANGED refreshOps
       ELSE /\ CanAwait
            /\ refreshOps' = refreshOps \cup {sid}
            /\ UNCHANGED ret
  /\ UNCHANGED << sessions, obj, connectOp, discOps, invokes, connectedLog, teardown, presetVars, chat >>

DiscoveryFailed_Mut(o, sid) == [o EXCEPT ![sid].tools = << >>]

\* the catch block of discoverTools (lines 268-276): logs and throws, the
\* session object is not written
DiscoveryFailed(o, sid) == o

\* discoverTools of a refresh: client.listTools settled
RefreshSettle(sid, ok, tl) ==
  /\ sid \in refreshOps
  /\ refreshOps' = refreshOps \ {sid}
  /\ IF ok
       THEN /\ obj' = [obj EXCEPT ![sid].tools = StoreTools(obj[sid].tools, tl)]
            /\ ret' = Ret("refresh", NoSession, "ok", {})
       ELSE /\ obj' = DiscoveryFailed(obj, sid)
            /\ ret' = Ret("refresh", NoSession, "TOOL_DISCOVERY_FAILED", {})
  /\ UNCHANGED << sessions, connectOp, discOps, invokes, connectedLog, teardown, presetVars, chat >>

\* -------------------------------------------------------------- callTool
CallToolGuards_Mut(sid, n) ==
  IF ~InRegistry(sid) THEN "SESSION_NOT_FOUND"
  ELSE IF obj[sid].status # "connected" THEN "SESSION_NOT_CONNECTED"
  ELSE "issue"

\* callTool lines 330-352: what the guards before the provider call decide
CallToolGuards(sid, n) ==
  IF ~InRegistry(sid) THEN "SESSION_NOT_FOUND"
  ELSE IF obj[sid].status # "connected" THEN "SESSION_NOT_CONNECTED"
  ELSE IF ~HasTool(obj[sid].tools, n) THEN "TOOL_NOT_FOUND"
  ELSE "issue"

\* connected sessions of the registry whose cached list has tool n
Exposers(n) ==
  { id \in SeqToSet(sessions) :
      obj[id].status = "connected" /\ HasTool(obj[id].tools, n) }

\* session-scoped callTool up to its await client.callTool()
CallTool(sid, n) ==
  /\ sid \in Ids \cup {UnknownId}
  /\ IF CallToolGuards(sid, n) = "issue"
       THEN /\ CanAwait
            /\ invokes' = invokes \cup { [sid |-> sid, name |-> n] }
            /\ ret' = Ret("callTool", sid, "issued", {})
       ELSE /\ ret' = Ret("callTool", sid, CallToolGuards(sid, n),
                          IF CallToolGuards(sid, n) = "TOOL_NOT_FOUND"
                            THEN SeqToSet(Names(obj[sid].tools)) ELSE {})
            /\ UNCHANGED invokes
  /\ UNCHANGED << sessions, obj, connectOp, discOps, refreshOps, connectedLog, teardown, presetVars, chat >>

RouteTarget_Mut(n) == IF sessions = << >> THEN NoSession ELSE Head(sessions)

\* the session callToolAcrossSessions hands the call to
RouteTarget(n) == findSessionForTool(n)

\* callToolAcrossSessions up to the await inside callTool
CallToolAcrossSessions(n) ==
  /\ IF RouteTarget(n) = NoSession
       THEN /\ ret' = RetD("route", NoSession, "TOOL_NOT_FOUND", Exposers(n),
                           SeqToSet(Names(getAllTools)))
            /\ UNCHANGED invokes
       ELSE IF CallToolGuards(RouteTarget(n), n) = "issue"
       THEN /\ CanAwait
            /\ invokes' = invokes \cup { [sid |-> RouteTarget(n), name |-> n] }
            /\ ret' = Ret("route", RouteTarget(n), "issued", Exposers(n))
       ELSE /\ ret' = Ret("route", NoSession, CallToolGuards(RouteTarget(n), n),
                          Exposers(n))
            /\ UNCHANGED invokes
  /\ UNCHANGED << sessions, obj, connectOp, discOps, refreshOps, connectedLog, teardown, presetVars, chat >>

\* lines 356-373, the try block once client.callTool has settled: a result
\* is returned, a result flagged isError throws an McpError carrying
\* result.content, a rejection of the call throws the transport's exception
TryCallTool(outcome) ==
  CASE outcome = "ok"      -> [kind |-> "return", code |-> "ok", detail |-> {}]
    [] outcome = "isError" -> [kind |-> "McpError", code |-> "TOOL_EXECUTION_ERROR",
                               detail |-> {"providerContent"}]
    [] outcome = "throws"  -> [kind |-> "Error", code |-> "none",
                               detail |-> {"transportException"}]

CatchCallTool_Mut(t) ==
  IF t.kind = "return" THEN t
  ELSE [kind |-> "McpError", code |-> "TOOL_EXECUTION_FAILED",
        detail |-> IF t.kind = "McpError" THEN {"McpError"} ELSE t.detail]

\* lines 374-386, the catch block: an McpError is rethrown as it is, anything
\* else is wrapped with the caught error as details
CatchCallTool(t) ==
  IF t.kind \in {"return", "McpError"} THEN t
  ELSE [kind |-> "McpError", code |-> "TOOL_EXECUTION_FAILED", detail |-> t.detail]

\* client.callTool settled: a result, a result flagged isError, or a rejection
InvokeSettle(i, outcome) ==
  /\ i \in invokes
  /\ invokes' = invokes \ {i}
  /\ LET r == CatchCallTool(TryCallTool(outcome))
     IN ret' = Ret("callTool", NoSession, r.code, r.detail)
  /\ UNCHANGED << sessions, obj, connectOp, discOps, refreshOps, connectedLog, teardown, presetVars, chat >>

\* ---------------------------------------------- chatAggregated: tool set
RECURSIVE Dedup_Mut(_, _)
Dedup_Mut(tagged, seen) ==
  IF tagged = << >> THEN << >>
  ELSE IF \E i \in 2..Len(tagged) : tagged[i].name = Head(tagged).name
         THEN Dedup_Mut(Tail(tagged), seen)
         ELSE << Tool(Head(tagged).name, Head(tagged).desc) >>
              \o Dedup_Mut(Tail(tagged), seen)

\* lines 229-239: keep the first occurrence of each name, strip the session tag
RECURSIVE Dedup(_, _)
Dedup(tagged, seen) ==
  IF tagged = << >> THEN << >>
  ELSE IF Head(tagged).name \in seen
         THEN Dedup(Tail(tagged), seen)
         ELSE << Tool(Head(tagged).name, Head(tagged).desc) >>
              \o Dedup(Tail(tagged), seen \cup {Head(tagged).name})

toolsForLlm == Dedup(getAllTools, {})

\* ------------------------------------------------------- chatAggregated
\* the tool calls a reply of the Completion Service asks for (names only)
SmallBatch == << "echo" >>
BigBatch == << "echo", "frobnicate", "add" >>

\* ToolCall records with the toolUseIds from, from + 1, ...
ToolCalls(names, from) ==
  [i \in 1..Len(names) |-> [toolUseId |-> from + i - 1, toolName |-> names[i]]]

\* callToolAcrossSessions up to its first await: a rejection thrown by the
\* lookup or by the guards of callTool, or a pending client.callTool
StartCall(n) ==
  IF RouteTarget(n) = NoSession
    THEN [status |-> "rejected", sid |-> NoSession, err |-> "TOOL_NOT_FOUND"]
  ELSE IF CallToolGuards(RouteTarget(n), n) # "issue"
    THEN [status |-> "rejected", sid |-> RouteTarget(n),
          err |-> CallToolGuards(RouteTarget(n), n)]
  ELSE [status |-> "pending", sid |-> RouteTarget(n), err |-> "none"]

Pending(call, n) ==
  IF call.status = "pending" THEN { [sid |-> call.sid, name |-> n] } ELSE {}

HitCeiling_Mut(c) == c.iterations > MAX_TOOL_ITERATIONS

\* the condition of the max-iterations warning, line 327
HitCeiling(c) == c.iterations >= MAX_TOOL_ITERATIONS

LoopContinues_Mut(c, toolCalls) == toolCalls # << >>

\* the condition of the while loop, line 259
LoopContinues(c, toolCalls) ==
  toolCalls # << >> /\ c.iterations < MAX_TOOL_ITERATIONS

\* llmResponse assigned: enter the loop body up to the await of the first
\* tool call, or leave the loop and send the reply (lines 259-274, 327-337)
AfterReply(c, toolCalls) ==
  IF LoopContinues(c, toolCalls)
    THEN [c EXCEPT !.pc = "awaitTool",
                   !.iterations = c.iterations + 1,
                   !.toolCalls = toolCalls,
                   !.idx = 1,
                   !.toolResults = << >>,
                   !.call = StartCall(toolCalls[1].toolName)]
    ELSE [c EXCEPT !.pc = "replied", !.code = "ok", !.toolCalls = toolCalls,
                   !.warned = HitCeiling(c)]

\* POST /api/chat: validation, tool set, then await bedrockService.chat
ChatAggregated(valid) ==
  /\ chat.pc = "idle"
  /\ chat' = IF valid
               THEN [chat EXCEPT !.pc = "awaitLlm", !.roundTrips = 1,
                                 !.handler = "aggregated",
                                 !.tools = toolsForLlm,
                                 !.sentTools = toolsForLlm]
               ELSE [chat EXCEPT !.pc = "error", !.code = "INVALID_REQUEST"]
  /\ UNCHANGED << sessions, obj, connectOp, discOps, refreshOps, invokes, ret,
                  connectedLog, teardown, presetVars >>

\* bedrockService.chat / continueWithToolResults resolved with a reply asking
\* for the tool calls named by names (none when names is empty)
LlmReply(names) ==
  /\ chat.pc = "awaitLlm"
  /\ names # << >> => chat.roundTrips <= MaxRequests
  /\ Len(names) > 1 => chat.big < MaxBigBatches
  /\ LET c == [chat EXCEPT !.nextId = chat.nextId + Len(names),
                           !.big = chat.big + (IF Len(names) > 1 THEN 1 ELSE 0)]
         n == AfterReply(c, ToolCalls(names, chat.nextId))
     IN /\ chat' = n
        /\ invokes' = IF n.pc = "awaitTool"
                        THEN invokes \cup Pending(n.call, n.toolCalls[1].toolName)
                        ELSE invokes
  /\ UNCHANGED << sessions, obj, connectOp, discOps, refreshOps, ret,
                  connectedLog, teardown, presetVars >>

\* what client.send can reject with: an Error or another thrown value, whose
\* text may or may not mention Bedrock
SendErrors == [kind : {"Error", "value"}, bedrock : BOOLEAN]

BedrockCatch_Mut(e) == e

\* BedrockService.chat lines 174-179 and continueWithToolResults lines
\* 274-279: throw new Error(`Bedrock API error: ${...}`)
BedrockCatch(e) == [kind |-> "Error", bedrock |-> TRUE]

\* the outer catch of the chat handlers (lines 184-197, 338-351; chatStandalone
\* lines 60-68 has no McpError branch and is never reached by one): an McpError
\* answers its own code, an Error whose message includes "Bedrock" answers
\* BEDROCK_ERROR 503, anything else goes to next(error)
ChatCatch(e) ==
  IF e.kind = "McpError" THEN e.code
  ELSE IF e.kind = "Error" /\ e.bedrock THEN "BEDROCK_ERROR"
  ELSE "INTERNAL_ERROR"

\* the Completion Service call rejected: the outer catch answers
LlmFail(e) ==
  /\ chat.pc = "awaitLlm"
  /\ chat' = [chat EXCEPT !.pc = "error", !.code = ChatCatch(BedrockCatch(e))]
  /\ UNCHANGED << sessions, obj, connectOp, discOps, refreshOps, invokes, ret,
                  connectedLog, teardown, presetVars >>

ContinueTools_Mut(c) == toolsForLlm

\* the tools argument of continueWithToolResults: the local toolsForLlm (line 320)
ContinueTools(c) == c.tools

PushUsed_Mut(used, tc, failed) ==
  IF failed THEN used ELSE Append(used, [name |-> tc.toolName, error |-> failed])

\* allToolsUsed.push in the try block (lines 284-289) and in the catch block
\* (lines 301-306)
PushUsed(used, tc, failed) ==
  Append(used, [name |-> tc.toolName, error |-> failed])

Accumulate_Mut(all, batch) == batch

\* lines 311-312: allToolCalls = [...allToolCalls, ...llmResponse.toolCalls]
\* and allToolResults = [...allToolResults, ...toolResults]
Accumulate(all, batch) == all \o batch

BatchGoesOn_Mut(c, failed) == ~failed /\ c.idx < Len(c.toolCalls)

\* the for loop over llmResponse.toolCalls has a next element
BatchGoesOn(c, failed) == c.idx < Len(c.toolCalls)

\* the awaited tool call settled: push the result (try) or the error-flagged
\* result (catch), then run to the next await: the next call of the batch, or
\* the accumulation and continueWithToolResults (lines 276-322)
ToolSettle(outcome) ==
  LET tc == chat.toolCalls[chat.idx]
      failed == outcome # "ok"
      pushed == [chat EXCEPT
                   !.toolResults = Append(chat.toolResults,
                                     [toolUseId |-> tc.toolUseId, isError |-> failed]),
                   !.allToolsUsed = PushUsed(chat.allToolsUsed, tc, failed),
                   !.errs = chat.errs + (IF outcome \in {"isError", "throws"}
                                           THEN 1 ELSE 0),
                   !.last = outcome]
      nextCall == StartCall(chat.toolCalls[chat.idx + 1].toolName)
  IN
  /\ chat.pc = "awaitTool"
  /\ IF chat.call.status = "rejected"
       THEN outcome = chat.call.err
       ELSE outcome \in {"ok", "isError", "throws"}
  /\ outcome \in {"isError", "throws"} => chat.errs < MaxToolErrors
  /\ IF BatchGoesOn(chat, failed)
       THEN /\ chat' = [pushed EXCEPT !.idx = chat.idx + 1, !.call = nextCall]
            /\ invokes' = (invokes \ Pending(chat.call, tc.toolName))
                            \cup Pending(nextCall,
                                         chat.toolCalls[chat.idx + 1].toolName)
       ELSE /\ chat' = [pushed EXCEPT
                          !.pc = "awaitLlm",
                          !.roundTrips = chat.roundTrips + 1,
                          !.call = NoCall,
                          !.sentTools = ContinueTools(chat),
                          !.allToolCalls = Accumulate(chat.allToolCalls, chat.toolCalls),
                          !.allToolResults = Accumulate(chat.allToolResults,
                                                       pushed.toolResults)]
            /\ invokes' = invokes \ Pending(chat.call, tc.toolName)
  /\ UNCHANGED << sessions, obj, connectOp, discOps, refreshOps, ret,
                  connectedLog, teardown, presetVars >>

toolsUsed_Mut == [present |-> TRUE, list |-> chat.allToolsUsed]

\* the toolsUsed field of the response body (lines 333-337)
toolsUsed ==
  [present |-> chat.allToolsUsed # << >>, list |-> chat.allToolsUsed]

ToolOutcomes ==
  {"ok", "isError", "throws", "TOOL_NOT_FOUND", "SESSION_NOT_FOUND",
   "SESSION_NOT_CONNECTED"}

Replies == { << >>, SmallBatch, BigBatch }

\* ----------------------------------------------------------------- Next
\* session lifecycle: connect, disconnect

\* ---------------------------------------------------------- PresetManager
\* connectWithConfig: sse and streamable-http go to connectSse, stdio to connectStdio
EntryOf(p) == IF PresetTransport[p] = "stdio" THEN "stdio" ELSE "sse"

AlreadyConnected_Mut(p) == FALSE

\* connectPreset: the mapped session exists and its status is connected
AlreadyConnected(p) ==
  /\ presetSessions[p] # NoSession
  /\ InRegistry(presetSessions[p])
  /\ obj[presetSessions[p]].status = "connected"

NeedsConnect(p) == ~AlreadyConnected(p)

RECURSIVE IndexOf(_, _)
IndexOf(ps, p) == IF Head(ps) = p THEN 1 ELSE 1 + IndexOf(Tail(ps), p)

\* ps.map(p => connectPreset(p)), each call run up to its await: a call returns
\* the live session, or drops the stale mapping and runs connectWithConfig up
\* to the await of client.connect (row stored, handshake pending)
MapConnect(ps, via) ==
  LET need == SelectSeq(ps, NeedsConnect)
      sidOf(p) == Len(obj) + IndexOf(need, p)
  IN
  /\ obj' = obj \o [i \in 1..Len(need) |-> NewSession(EntryOf(need[i]))]
  /\ sessions' = sessions \o [i \in 1..Len(need) |-> Len(obj) + i]
  /\ connectOp' = connectOp \o
                    [i \in 1..Len(need) |-> NewConnectOp(EntryOf(need[i]), "preset")]
  /\ presetSessions' = [p \in PresetIds |->
                          IF p \in SeqToSet(need) THEN NoSession
                                                  ELSE presetSessions[p]]
  /\ presetOps' = presetOps \cup
                    { [p |-> p, via |-> via, sid |-> sidOf(p), dirty |-> FALSE,
                       before |-> presetSessions[p]] :
                        p \in SeqToSet(need) }

\* session ids left for the calls of ps that open a session
Room(ps, cap) == Len(obj) + Len(SelectSeq(ps, NeedsConnect)) <= cap

\* what each call of the map has produced when the turn ends
MapResults(ps) ==
  LET need == SelectSeq(ps, NeedsConnect) IN
  [p \in PresetIds |->
     IF p \notin SeqToSet(ps) THEN NoResult
     ELSE IF AlreadyConnected(p)
       THEN [outcome |-> "fulfilled", sid |-> presetSessions[p]]
       ELSE [outcome |-> "pending", sid |-> Len(obj) + IndexOf(need, p)]]

IsAuto(p) == PresetAutoConnect[p]

\* autoConnectPresets filters on autoConnect, connectAllPresets takes getPresets()
Targets(via) == IF via = "auto" THEN SelectSeq(Presets, IsAuto) ELSE Presets

\* POST /api/presets/:presetId/connect up to the await in connectPreset
ConnectPreset(p) ==
  /\ Room(<< p >>, MaxSessions)
  /\ MapConnect(<< p >>, "api")
  /\ ret' = IF AlreadyConnected(p)
              THEN Ret("connectPreset", presetSessions[p], "ok", {p, "already"})
              ELSE ret
  /\ UNCHANGED << discOps, refreshOps, invokes, connectedLog, teardown, fanout, lastConn, chat >>

\* autoConnectPresets (via = auto, called once, at startup) and
\* connectAllPresets (via = all) up to their await Promise.allSettled
FanOut(via) ==
  /\ fanout[via].st = IF via = "auto" THEN "idle" ELSE fanout[via].st
  /\ fanout[via].st # "running"
  /\ Room(Targets(via), MaxPresetSessions)
  /\ MapConnect(Targets(via), via)
  /\ fanout' = [fanout EXCEPT ![via] =
                  [st |-> "running", results |-> MapResults(Targets(via)),
                   connected |-> << >>, failed |-> << >>]]
  /\ UNCHANGED << discOps, refreshOps, invokes, connectedLog, teardown, ret, lastConn, chat >>

AutoConnectPresets == FanOut("auto")

ConnectAllPresets == FanOut("all")

\* connectWithConfig settled: set the mapping and return, or rethrow
PresetConnectSettle(op) ==
  LET ok == connectOp[op.sid].pc = "returned"
      res == [outcome |-> IF ok THEN "fulfilled" ELSE "rejected", sid |-> op.sid]
  IN
  /\ op \in presetOps
  /\ connectOp[op.sid].pc \in {"returned", "failed"}
  /\ presetSessions' = IF ok THEN [presetSessions EXCEPT ![op.p] = op.sid]
                             ELSE presetSessions
  /\ presetOps' = presetOps \ {op}
  /\ lastConn' = [lastConn EXCEPT ![op.p] =
                    IF ok /\ ~op.dirty THEN op.sid ELSE NoSession]
  /\ IF op.via = "api"
       THEN /\ ret' = Ret("connectPreset", IF ok THEN op.sid ELSE NoSession,
                          IF ok THEN "ok" ELSE connectOp[op.sid].err, {op.p})
            /\ UNCHANGED fanout
       ELSE /\ fanout' = [fanout EXCEPT ![op.via].results[op.p] = res]
            /\ UNCHANGED ret
  /\ UNCHANGED << sessions, obj, connectOp, discOps, refreshOps, invokes,
                  connectedLog, teardown, chat >>

Fulfilled(via, p) == fanout[via].results[p].outcome = "fulfilled"

AllSettled_Mut(via) ==
  \E p \in SeqToSet(Targets(via)) : fanout[via].results[p].outcome # "pending"

\* Promise.allSettled: every promise of the array has settled
AllSettled(via) ==
  \A p \in SeqToSet(Targets(via)) : fanout[via].results[p].outcome # "pending"

\* results.forEach: fulfilled goes to connected, anything else to failed
\* (autoConnectPresets keeps only the two counts, the lengths of the lists)
FanoutJoin(via) ==
  /\ fanout[via].st = "running"
  /\ AllSettled(via)
  /\ fanout' = [fanout EXCEPT
       ![via].st = "done",
       ![via].connected = SelectSeq(Targets(via), LAMBDA p : Fulfilled(via, p)),
       ![via].failed = SelectSeq(Targets(via), LAMBDA p : ~Fulfilled(via, p))]
  /\ UNCHANGED << sessions, obj, connectOp, discOps, refreshOps, invokes, ret,
                  connectedLog, teardown, presetSessions, presetOps, lastConn, chat >>

\* disconnectPreset up to its await of McpClientManager.disconnect
DisconnectPreset(p) ==
  IF presetSessions[p] = NoSession
    THEN /\ ret' = Ret("disconnectPreset", NoSession, "ok", {p, "notConnected"})
         /\ UNCHANGED << sessions, obj, connectOp, discOps, refreshOps, invokes,
                         connectedLog, teardown, presetVars, chat >>
    ELSE /\ CanAwait
         /\ DisconnectCall(presetSessions[p], p)
         /\ Disturb
         /\ UNCHANGED << sessions, connectOp, refreshOps, invokes, connectedLog, teardown,
                         presetSessions, fanout, chat >>

\* disconnectPreset after the await: the error is logged, the mapping deleted
DisconnectPresetFinally(d) ==
  /\ d \in discOps
  /\ d.pc \in {"done", "rejected"}
  /\ presetSessions' = [presetSessions EXCEPT ![d.caller] = NoSession]
  /\ discOps' = discOps \ {d}
  /\ ret' = Ret("disconnectPreset", d.sid, "ok", {d.caller})
  /\ Disturb
  /\ UNCHANGED << sessions, obj, connectOp, refreshOps, invokes, connectedLog, teardown,
                  fanout, chat >>

Next ==
  \/ \E input \in {"ok", "invalidUrl", "ctorThrows"} : ConnectSse(input)
  \/ \E id \in 1..MaxSessions + 1 :
       \/ HandshakeOk(id)
       \/ HandshakeFail(id, FALSE)
       \/ \E tl \in ToolLists : ListToolsOk(id, tl)
       \/ ListToolsFail(id)
       \/ ConnectCatch(id)
       \/ ConnectCleanup(id)
       \/ ConnectReturn(id)
  \/ \E sid \in 0..MaxSessions + 1 : Disconnect(sid)
  \/ \E d \in discOps, closeOk \in BOOLEAN : DisconnectSettle(d, closeOk)

Spec == Init /\ [][Next]_vars

\* tool catalog: connect, refresh
NextCatalog ==
  \/ ConnectSse("ok")
  \/ \E id \in 1..MaxSessions + 1 :
       \/ HandshakeOkLogged(id)
       \/ \E tl \in ToolLists : ListToolsOk(id, tl)
       \/ ListToolsFail(id)
       \/ ConnectCatch(id)
       \/ ConnectCleanup(id)
       \/ ConnectReturn(id)
  \/ \E sid \in 1..MaxSessions + 1 : RefreshTools(sid)
  \/ \E sid \in refreshOps, ok \in BOOLEAN, tl \in ToolLists : RefreshSettle(sid, ok, tl)

SpecCatalog == Init /\ [][NextCatalog]_vars

\* routing: connect, callToolAcrossSessions
NextRoute ==
  \/ ConnectSse("ok")
  \/ \E id \in 1..MaxSessions + 1 :
       \/ HandshakeOk(id)
       \/ HandshakeFail(id, FALSE)
       \/ \E tl \in ToolLists : ListToolsOk(id, tl)
       \/ ListToolsFail(id)
       \/ ConnectCatch(id)
       \/ ConnectCleanup(id)
       \/ ConnectReturn(id)
  \/ \E n \in RequestNames : CallToolAcrossSessions(n)
  \/ \E i \in invokes, outcome \in {"ok", "isError", "throws"} : InvokeSettle(i, outcome)

\* the preset registry over the session registry
NextPreset ==
  \/ \E p \in CalledPresets : ConnectPreset(p)
  \/ \E op \in presetOps : PresetConnectSettle(op)
  \/ \E p \in CalledPresets : DisconnectPreset(p)
  \/ \E d \in discOps : DisconnectPresetFinally(d)
  \/ \E sid \in 1..MaxSessions : Disconnect(sid)
  \/ \E d \in discOps : DisconnectSettle(d, TRUE)
  \/ \E id \in 1..MaxSessions :
        \/ HandshakeOk(id)
        \/ HandshakeFail(id, FALSE)
        \/ ListToolsOk(id, << Tool("echo", 1) >>)
        \/ ListToolsFail(id)
        \/ ConnectCatch(id)
        \/ ConnectCleanup(id)
        \/ ConnectReturn(id)

SpecPreset == Init /\ [][NextPreset]_vars

\* startup auto-connect and the connect-all endpoint
NextFanout ==
  \/ AutoConnectPresets
  \/ ConnectAllPresets
  \/ \E op \in presetOps : PresetConnectSettle(op)
  \/ \E via \in FanoutKinds : FanoutJoin(via)
  \/ \E id \in 1..MaxPresetSessions :
        \/ HandshakeOk(id)
        \/ HandshakeFail(id, FALSE)
        \/ ListToolsOk(id, << Tool("echo", 1) >>)
        \/ ListToolsFail(id)
        \/ ConnectCatch(id)
        \/ ConnectCleanup(id)
        \/ ConnectReturn(id)

SpecFanout == Init /\ [][NextFanout]_vars

\* a chat request against a registry that holds no session, or one connected
\* session with its tools cached (its connect has returned)
InitChat ==
  /\ \E n \in {0, 1} :
       /\ sessions = [i \in 1..n |-> i]
       /\ obj = [i \in 1..n |->
                   [NewSession("sse") EXCEPT
                      !.status = "connected",
                      !.tools = << Tool("echo", 2), Tool("add", 2) >>]]
       /\ connectOp = [i \in 1..n |->
                         [NewConnectOp("sse", "api") EXCEPT !.pc = "returned"]]
  /\ discOps = {}
  /\ refreshOps = {}
  /\ invokes = {}
  /\ ret = Ret("none", NoSession, "none", {})
  /\ connectedLog = << >>
  /\ teardown = NoTeardown
  /\ presetSessions = [p \in PresetIds |-> NoSession]
  /\ presetOps = {}
  /\ fanout = [k \in FanoutKinds |->
                 [st |-> "idle", results |-> [p \in PresetIds |-> NoResult],
                  connected |-> << >>, failed |-> << >>]]
  /\ lastConn = [p \in PresetIds |-> NoSession]
  /\ chat = NoChat

NextChat ==
  \/ \E valid \in BOOLEAN : ChatAggregated(valid)
  \/ \E names \in Replies : LlmReply(names)
  \/ \E e \in SendErrors : LlmFail(e)
  \/ \E outcome \in ToolOutcomes : ToolSettle(outcome)

SpecChat == InitChat /\ [][NextChat]_vars

\* a chat request while the tool list of a session is being refreshed
NextChatRefresh ==
  \/ NextChat
  \/ \E sid \in SeqToSet(sessions) : RefreshTools(sid)
  \/ \E sid \in refreshOps : RefreshSettle(sid, TRUE, << Tool("echo", 1) >>)

SpecChatRefresh == InitChat /\ [][NextChatRefresh]_vars

\* every awaited call of the request settles
SpecChatLive == SpecChat /\ WF_vars(NextChat)

\* session-scoped and routed tool calls on the sessions of the registry
NextInvoke ==
  \/ ConnectSse("ok")
  \/ \E id \in 1..MaxSessions :
        \/ HandshakeOk(id)
        \/ \E tl \in ToolLists : ListToolsOk(id, tl)
        \/ ConnectReturn(id)
  \/ \E sid \in 0..MaxSessions, n \in RequestNames : CallTool(sid, n)
  \/ \E n \in RequestNames : CallToolAcrossSessions(n)
  \/ \E i \in invokes, outcome \in {"ok", "isError", "throws"} : InvokeSettle(i, outcome)

SpecInvoke == Init /\ [][NextInvoke]_vars

\* the guards of getTools, refreshTools and callTool over the whole lifecycle
NextGuard ==
  \/ ConnectSse("ok")
  \/ \E id \in 1..MaxSessions :
        \/ HandshakeOk(id)
        \/ HandshakeFail(id, FALSE)
        \/ ListToolsOk(id, << Tool("echo", 1) >>)
        \/ ConnectCleanup(id)
        \/ ConnectReturn(id)
  \/ \E sid \in 0..MaxSessions : GetTools(sid)
  \/ \E sid \in 0..MaxSessions : RefreshTools(sid)
  \/ \E sid \in refreshOps : RefreshSettle(sid, TRUE, << Tool("echo", 2) >>)
  \/ \E sid \in 0..MaxSessions : CallTool(sid, "echo")
  \/ \E i \in invokes : InvokeSettle(i, "ok")

SpecGuard == Init /\ [][NextGuard]_vars

SpecRoute == Init /\ [][NextRoute]_vars

\* ================================================================ claims

\* C1: a connect attempt that failed at handshake or at tool discovery leaves
\* no row for its session id in the registry, and its transport was asked to
\* close.
C1_FailedConnectLeavesNoRow ==
  \A id \in Ids :
    connectOp[id].pc = "failed" => ~InRegistry(id) /\ obj[id].closeAsked

C1_Witness ==
  /\ \E id \in Ids : connectOp[id].pc = "failed" /\ connectOp[id].err = "TOOL_DISCOVERY_FAILED"
  /\ \E id \in Ids : connectOp[id].pc = "failed" /\ connectOp[id].err = "CONNECTION_FAILED"

C3_DisconnectAlwaysRemovesRow ==
  [][ \A d \in discOps :
        d \notin discOps'
          => /\ d.sid \notin SeqToSet(sessions')
             /\ d.caller = "api" => ret' = Ret("disconnect", d.sid, "ok", ret'.aux) ]_vars

C3_Witness ==
  /\ ret.op = "disconnect" /\ ret.code = "ok" /\ "closeFailed" \in ret.aux
  /\ ~InRegistry(ret.sid) /\ obj[ret.sid].status = "connected"

\* C4: every tool getAllTools emits, and every owner findSessionForTool
\* returns, belongs to a session whose status is connected.
C4_OnlyConnectedSessionsCount ==
  /\ \A i \in 1..Len(getAllTools) :
       obj[getAllTools[i].sessionId].status = "connected"
  /\ \A n \in RequestNames :
       findSessionForTool(n) # NoSession
         => obj[findSessionForTool(n)].status = "connected"

C4_Witness ==
  /\ \E id \in SeqToSet(sessions) : obj[id].status = "error" /\ obj[id].tools # << >>
  /\ getAllTools # << >>

\* the descriptor of tool n in a cached tool list (its first entry named n)
RECURSIVE DescOf(_, _)
DescOf(tl, n) ==
  IF tl = << >> THEN 0
  ELSE IF Head(tl).name = n THEN Head(tl).desc ELSE DescOf(Tail(tl), n)

CountOf(tl, n) == Cardinality({ i \in 1..Len(tl) : tl[i].name = n })

\* the first element of sequence order that lies in set S (S non-empty)
RECURSIVE FirstOf(_, _)
FirstOf(order, S) ==
  IF order = << >> THEN NoSession
  ELSE IF Head(order) \in S THEN Head(order) ELSE FirstOf(Tail(order), S)

\* C5 as stated: of the connected sessions exposing X, the one whose status
\* became connected first supplies the single X of the LLM-facing tool set.
C5_FirstConnectedWins ==
  \A n \in ToolNames :
    Cardinality(Exposers(n)) >= 2
      => /\ CountOf(toolsForLlm, n) = 1
         /\ DescOf(toolsForLlm, n)
              = DescOf(obj[FirstOf(connectedLog, Exposers(n))].tools, n)

\* C5 amended: the LLM-facing tool set has exactly one X, and it is the
\* descriptor of the exposing session whose connect attempt started first
\* (the earliest row of the registry), whichever finished its handshake first.
C5_FirstInsertedWins ==
  \A n \in ToolNames :
    Cardinality(Exposers(n)) >= 2
      => /\ CountOf(toolsForLlm, n) = 1
         /\ DescOf(toolsForLlm, n)
              = DescOf(obj[FirstOf(sessions, Exposers(n))].tools, n)

C5_Witness ==
  \E a, b \in Exposers("echo") :
     /\ a < b
     /\ DescOf(obj[a].tools, "echo") # DescOf(obj[b].tools, "echo")
     /\ FirstOf(connectedLog, {a, b}) = b
     /\ DescOf(toolsForLlm, "echo") = DescOf(obj[a].tools, "echo")

\* C6: when exactly one connected session exposes tool X,
\* callToolAcrossSessions(X) issues the provider call, on that session.
C6_RoutesToTheOnlyExposer ==
  (ret.op = "route" /\ Cardinality(ret.aux) = 1)
    => ret.code = "issued" /\ ret.sid \in ret.aux

C6_Witness ==
  /\ ret.op = "route" /\ ret.code = "issued" /\ Cardinality(ret.aux) = 1
  /\ [sid |-> ret.sid, name |-> "add"] \in invokes
  /\ \E o \in SeqToSet(sessions) : o # ret.sid /\ obj[o].status = "connected"

\* C7: when connectPreset(p) is called after a connectPreset(p) that returned
\* a session id, with no disconnect since that earlier call began, the call
\* returns the same session id and opens no session (no second handshake).
C7_SecondConnectReusesSession ==
  [][ \A p \in PresetIds :
        lastConn[p] # NoSession /\ ConnectPreset(p)
          => /\ ret' = Ret("connectPreset", lastConn[p], "ok", {p, "already"})
             /\ obj' = obj /\ sessions' = sessions
             /\ connectOp' = connectOp /\ presetOps' = presetOps
             /\ presetSessions' = presetSessions ]_vars

C7_Witness ==
  /\ ret.op = "connectPreset" /\ "already" \in ret.aux /\ "A" \in ret.aux
  /\ ret.sid = lastConn["A"] /\ ret.sid = presetSessions["A"]
  /\ Len(obj) = 1 /\ connectOp[1].pc = "returned"

C8_LoopTerminates ==
  /\ [](/\ chat.iterations <= MAX_TOOL_ITERATIONS
        /\ chat.roundTrips <= MAX_TOOL_ITERATIONS + 1
        /\ chat.pc = "error" => chat.code \in {"INVALID_REQUEST", "BEDROCK_ERROR"})
  /\ (chat.pc \in {"awaitLlm", "awaitTool"}) ~> (chat.pc \in {"replied", "error"})

C8_Witness ==
  /\ chat.pc = "replied"
  /\ chat.iterations = MAX_TOOL_ITERATIONS
  /\ chat.roundTrips = MAX_TOOL_ITERATIONS + 1
  /\ chat.toolCalls # << >>

\* C9: when a tool call of a batch settles, its outcome is pushed as a result
\* keyed by the call's toolUseId and flagged isError iff it failed; the next
\* call of the batch is then attempted whether or not this one failed, and
\* after the last one continueWithToolResults is handed every call and every
\* result of the batch, in order.
C9_BatchRunsToTheEnd ==
  [][ chat.pc = "awaitTool" /\ chat' # chat =>
        LET tc == chat.toolCalls[chat.idx] IN
        /\ chat'.toolResults =
             Append(chat.toolResults,
                    [toolUseId |-> tc.toolUseId, isError |-> chat'.last # "ok"])
        /\ chat.call.status = "rejected" => chat'.last = chat.call.err
        /\ chat.idx < Len(chat.toolCalls)
             => /\ chat'.pc = "awaitTool"
                /\ chat'.idx = chat.idx + 1
                /\ chat'.call.status \in {"pending", "rejected"}
                /\ chat'.allToolResults = chat.allToolResults
        /\ chat.idx = Len(chat.toolCalls)
             => /\ chat'.pc = "awaitLlm"
                /\ chat'.roundTrips = chat.roundTrips + 1
                /\ chat'.allToolCalls = chat.allToolCalls \o chat.toolCalls
                /\ chat'.allToolResults = chat.allToolResults \o chat'.toolResults
                /\ Len(chat'.toolResults) = Len(chat.toolCalls)
                /\ \A i \in 1..Len(chat.toolCalls) :
                     chat'.toolResults[i].toolUseId = chat.toolCalls[i].toolUseId ]_vars

C9_Witness ==
  /\ chat.pc = "awaitLlm"
  /\ Len(chat.toolCalls) = 3 /\ Len(chat.toolResults) = 3
  /\ ~chat.toolResults[1].isError
  /\ chat.toolResults[2].isError
  /\ ~chat.toolResults[3].isError
  /\ chat.toolResults[3].toolUseId = chat.toolCalls[3].toolUseId
  /\ Len(chat.allToolResults) >= 3

\* C11: when a fan-out has returned, every preset whose autoConnect flag is
\* set was attempted and no preset with autoConnect = false was connected by it.
C11_OnlyFlaggedAttempted ==
  \A via \in FanoutKinds :
    fanout[via].st = "done" =>
      \A p \in PresetIds :
        /\ PresetAutoConnect[p] => fanout[via].results[p].outcome # "none"
        /\ ~PresetAutoConnect[p] => p \notin SeqToSet(fanout[via].connected)

\* names of the tools cached by the connected sessions of the registry
AvailableNames ==
  { n \in ToolNames :
      \E id \in SeqToSet(sessions) :
        obj[id].status = "connected" /\ HasTool(obj[id].tools, n) }

\* C12: a call for a tool name that no connected session exposes (routed), or
\* that the connected target session does not cache (session-scoped), fails
\* with TOOL_NOT_FOUND, issues no provider call, and reports the names of all
\* tools of the connected sessions, respectively of that session's cached list.
C12_UnknownToolNotFound ==
  [][ /\ \A n \in RequestNames :
           Exposers(n) = {} /\ CallToolAcrossSessions(n)
             => /\ ret'.op = "route" /\ ret'.code = "TOOL_NOT_FOUND"
                /\ ret'.detail = AvailableNames
                /\ invokes' = invokes
      /\ \A sid \in Ids, n \in RequestNames :
           ( /\ InRegistry(sid) /\ obj[sid].status = "connected"
             /\ ~HasTool(obj[sid].tools, n)
             /\ CallTool(sid, n) )
             => /\ ret'.op = "callTool" /\ ret'.code = "TOOL_NOT_FOUND"
                /\ ret'.sid = sid
                /\ ret'.aux = { obj[sid].tools[i].name : i \in 1..Len(obj[sid].tools) }
                /\ invokes' = invokes ]_vars

C12_Witness ==
  /\ ret.op = "callTool" /\ ret.code = "TOOL_NOT_FOUND"
  /\ ret.aux = {"echo", "add"}
  /\ InRegistry(ret.sid) /\ obj[ret.sid].status = "connected"
  /\ invokes = {}

\* C13: in every state, a preset's stored session id refers to a session that
\* is in the registry with status connected.
C13_MappingPointsToConnected ==
  \A p \in PresetIds :
    presetSessions[p] # NoSession
      => /\ InRegistry(presetSessions[p])
         /\ obj[presetSessions[p]].status = "connected"

\* C14: when a connectPreset call fails, the failure is returned to the caller
\* and the call has not changed the preset's mapping: an id it found stored
\* when it began is still stored (an empty mapping may only have been filled
\* by another call that succeeded meanwhile).
C14_FailedConnectKeepsMapping ==
  [][ \A op \in presetOps :
        (connectOp[op.sid].pc = "failed" /\ PresetConnectSettle(op))
          => /\ op.via = "api" => ret'.code # "ok"
             /\ op.before # NoSession => presetSessions'[op.p] = op.before ]_vars

\* C15: when the reply is sent, toolsUsed lists every tool call that was
\* executed in the turn, failed ones included, once each and in issue order
\* (it is absent when no call was executed); the calls of a last reply that
\* were not executed are not listed.
C15_ToolsUsedListsEveryCall ==
  chat.pc = "replied" =>
    /\ toolsUsed.present <=> chat.nextId - 1 - Len(chat.toolCalls) > 0
    /\ Len(toolsUsed.list) = chat.nextId - 1 - Len(chat.toolCalls)
    /\ Len(toolsUsed.list) = Len(chat.allToolCalls)
    /\ \A i \in 1..Len(toolsUsed.list) :
         /\ chat.allToolCalls[i].toolUseId = i
         /\ toolsUsed.list[i].name = chat.allToolCalls[i].toolName
         /\ toolsUsed.list[i].error = chat.allToolResults[i].isError

C15_Witness ==
  /\ chat.pc = "replied" /\ chat.iterations >= 3
  /\ Len(toolsUsed.list) >= 5
  /\ \E i \in 1..Len(toolsUsed.list) : toolsUsed.list[i].error
  /\ \E i \in 1..Len(toolsUsed.list) : ~toolsUsed.list[i].error

\* C16: every continueWithToolResults call carries the calls and the results
\* of all iterations so far, in issue order, and the tool set of the initial
\* chat call, whatever has happened to the registry since.
C16_ContinueCarriesEverything ==
  [][ chat'.pc = "awaitLlm" /\ chat'.roundTrips = chat.roundTrips + 1 /\ chat.roundTrips >= 1
        => /\ chat'.sentTools = chat.sentTools
           /\ Len(chat'.allToolCalls) = chat.nextId - 1
           /\ Len(chat'.allToolResults) = chat.nextId - 1
           /\ chat'.allToolCalls = chat.allToolCalls \o chat.toolCalls
           /\ \A i \in 1..(chat.nextId - 1) :
                /\ chat'.allToolCalls[i].toolUseId = i
                /\ chat'.allToolResults[i].toolUseId = i ]_vars

C16_Witness ==
  /\ chat.pc = "awaitLlm" /\ chat.iterations >= 2
  /\ Len(chat.allToolCalls) > Len(chat.toolCalls)
  /\ chat.sentTools # toolsForLlm

\* C17: when the loop ends at the ceiling with the last reply still asking
\* for tool calls, none of those calls is executed, the response is that
\* reply (a success, not an error) with the calls made so far, and the
\* max-iterations warning is emitted.
C17_CeilingIsASoftStop ==
  (chat.pc \in {"replied", "error"} /\ chat.iterations = MAX_TOOL_ITERATIONS
     /\ chat.toolCalls # << >> /\ chat.code # "BEDROCK_ERROR")
    => /\ chat.pc = "replied" /\ chat.code = "ok"
       /\ chat.warned
       /\ chat.call = NoCall /\ invokes = {}
       /\ chat.roundTrips = MAX_TOOL_ITERATIONS + 1
       /\ Len(chat.allToolsUsed) = Len(chat.allToolCalls)
       /\ \A i \in 1..Len(chat.toolCalls) :
            /\ chat.toolCalls[i].toolUseId > Len(chat.allToolCalls)
            /\ \A j \in 1..Len(chat.allToolResults) :
                 chat.allToolResults[j].toolUseId # chat.toolCalls[i].toolUseId

C17_Witness ==
  /\ chat.pc = "replied" /\ chat.warned /\ chat.code = "ok"
  /\ chat.iterations = MAX_TOOL_ITERATIONS
  /\ Len(chat.toolCalls) = 3
  /\ Len(chat.allToolsUsed) = MAX_TOOL_ITERATIONS

\* C18: a provider call that completes with isError set raises
\* TOOL_EXECUTION_ERROR with the provider's content as details, a call that
\* cannot complete raises TOOL_EXECUTION_FAILED with the transport exception
\* as details; the first is never rewrapped as the second and neither comes
\* back as a successful result.
C18_TwoInvocationFailures ==
  [][ \A i \in invokes :
        /\ InvokeSettle(i, "isError")
             => /\ ret'.op = "callTool" /\ ret'.code = "TOOL_EXECUTION_ERROR"
                /\ ret'.aux = {"providerContent"}
        /\ InvokeSettle(i, "throws")
             => /\ ret'.op = "callTool" /\ ret'.code = "TOOL_EXECUTION_FAILED"
                /\ ret'.aux = {"transportException"}
        /\ (invokes' = invokes \ {i} /\ ret'.op = "callTool" /\ ret'.code = "ok")
             => InvokeSettle(i, "ok") ]_vars

C18_Witness ==
  /\ ret.op = "callTool" /\ ret.code = "TOOL_EXECUTION_ERROR"
  /\ ret.aux = {"providerContent"}
  /\ invokes = {}
  /\ \E id \in SeqToSet(sessions) : obj[id].status = "connected"

\* C19: getTools, refreshTools and callTool on an id that is in the registry
\* with a status other than connected fail with SESSION_NOT_CONNECTED, give
\* no tools and start no provider call; on an id that is not in the registry
\* they fail with SESSION_NOT_FOUND.
C19_NotConnectedIsNotNotFound ==
  [][ \A sid \in Ids \cup {UnknownId} :
        LET code == IF InRegistry(sid) THEN "SESSION_NOT_CONNECTED"
                    ELSE "SESSION_NOT_FOUND"
        IN (~InRegistry(sid) \/ obj[sid].status # "connected")
             => /\ GetTools(sid)
                     => /\ ret'.code = code /\ ret'.aux = {}
                        /\ refreshOps' = refreshOps /\ invokes' = invokes
                /\ RefreshTools(sid)
                     => /\ ret'.op = "refresh" /\ ret'.code = code
                        /\ refreshOps' = refreshOps /\ invokes' = invokes
                        /\ obj' = obj
                /\ \A n \in RequestNames :
                     CallTool(sid, n)
                       => /\ ret'.code = code /\ ret'.aux = {}
                          /\ refreshOps' = refreshOps /\ invokes' = invokes ]_vars

C19_Witness ==
  /\ ret.op = "getTools" /\ ret.code = "SESSION_NOT_CONNECTED"
  /\ InRegistry(ret.sid) /\ obj[ret.sid].status = "connecting"
  /\ \E id \in Ids : ~InRegistry(id)


\* ------------------------------------------------- request validation
\* JSON values a request field can hold, by the type tests the handlers make
ConnectBodies == [serverUrl : {"absent", "number", "notUrl", "url"}]

StdioBodies == [command : {"absent", "number", "string"},
                args : {"absent", "notArray", "numberArray", "stringArray"}]

ExecuteBodies == [toolName : {"absent", "number", "echo"},
                  arguments : {"absent", "null", "string", "array", "object"}]

\* api.types.ts ConnectRequest: serverUrl is a string
ConnectRequest(b) == b.serverUrl \in {"notUrl", "url"}

\* preset.types.ts ConnectStdioRequest: command: string, args?: string[]
ConnectStdioRequest(b) ==
  b.command = "string" /\ b.args \in {"absent", "stringArray"}

\* api.types.ts ExecuteToolRequest: toolName: string,
\* arguments: Record<string, unknown>
ExecuteToolRequest(b) ==
  b.toolName \notin {"absent", "number"} /\ b.arguments \in {"absent", "object"}

\* connectToServer lines 186-189: !serverUrl || typeof serverUrl !== "string"
ConnectAccepted(b) == b.serverUrl \in {"notUrl", "url"}

\* connectStdio lines 225-233: the command test, then
\* args !== undefined && !Array.isArray(args)
StdioAccepted(b) ==
  b.command = "string" /\ b.args \in {"absent", "numberArray", "stringArray"}

\* executeTool lines 356-364: the toolName test, then
\* toolArgs !== undefined && (typeof toolArgs !== "object" || toolArgs === null)
ExecuteAccepted(b) ==
  b.toolName \notin {"absent", "number"}
    /\ b.arguments \in {"absent", "array", "object"}

\* sendError(res, ..., "INVALID_REQUEST", 400); return
InvalidRequest(op) ==
  /\ ret' = Ret(op, NoSession, "INVALID_REQUEST", {})
  /\ UNCHANGED << sessions, obj, connectOp, discOps, refreshOps, invokes,
                  connectedLog, teardown, presetVars, chat >>

\* POST /api/connect
ConnectToServer(b) ==
  IF ConnectAccepted(b)
    THEN ConnectSse(IF b.serverUrl = "url" THEN "ok" ELSE "invalidUrl")
    ELSE InvalidRequest("connect")

\* POST /api/connect/stdio
ConnectStdioHandler(b) ==
  IF StdioAccepted(b) THEN ConnectStdio("ok") ELSE InvalidRequest("connect")

\* POST /api/session/:sessionId/execute
ExecuteTool(sid, b) ==
  IF ExecuteAccepted(b) THEN CallTool(sid, b.toolName) ELSE InvalidRequest("execute")

NextRequest ==
  \/ \E b \in ConnectBodies : ConnectToServer(b)
  \/ \E b \in StdioBodies : ConnectStdioHandler(b)
  \/ \E id \in 1..MaxSessions :
        \/ HandshakeOk(id)
        \/ ListToolsOk(id, << Tool("echo", 1) >>)
        \/ ConnectReturn(id)
  \/ \E sid \in 0..MaxSessions, b \in ExecuteBodies : ExecuteTool(sid, b)
  \/ \E i \in invokes : InvokeSettle(i, "ok")
  \/ \E valid \in BOOLEAN : ChatAggregated(valid)
  \/ LlmReply(<< >>)

SpecRequest == Init /\ [][NextRequest]_vars

\* C20: a malformed request is rejected before any I/O: an invalid URL gives
\* INVALID_URL with no session row, and a connect, execute or chat request
\* with a missing or wrongly typed field is answered INVALID_REQUEST with the
\* registry, the calls in flight and the preset mappings unchanged.
C20_MalformedRejectedBeforeIO ==
  [][ /\ \A b \in ConnectBodies :
           (~ConnectRequest(b) /\ ConnectToServer(b))
             => /\ ret'.code = "INVALID_REQUEST"
                /\ UNCHANGED << sessions, obj, connectOp, invokes, presetSessions >>
      /\ ConnectToServer([serverUrl |-> "notUrl"])
           => /\ ret'.code = "INVALID_URL"
              /\ UNCHANGED << sessions, obj, connectOp, invokes, presetSessions >>
      /\ \A b \in StdioBodies :
           (~ConnectStdioRequest(b) /\ ConnectStdioHandler(b))
             => /\ ret'.code = "INVALID_REQUEST"
                /\ UNCHANGED << sessions, obj, connectOp, invokes, presetSessions >>
      /\ \A sid \in Ids \cup {UnknownId}, b \in ExecuteBodies :
           (~ExecuteToolRequest(b) /\ ExecuteTool(sid, b))
             => /\ ret'.code = "INVALID_REQUEST"
                /\ UNCHANGED << sessions, obj, connectOp, invokes, presetSessions >>
      /\ ChatAggregated(FALSE)
           => /\ chat'.code = "INVALID_REQUEST" /\ chat'.roundTrips = 0
              /\ UNCHANGED << sessions, obj, connectOp, invokes, presetSessions >>
    ]_vars


\* ------------------------------------------ chatStandalone and chat
\* POST /api/chat/standalone: validation, then await bedrockService.chat
\* with no tools
ChatStandalone(valid) ==
  /\ chat.pc = "idle"
  /\ chat' = IF valid
               THEN [chat EXCEPT !.pc = "awaitChat", !.roundTrips = 1,
                                 !.handler = "standalone"]
               ELSE [chat EXCEPT !.pc = "error", !.code = "INVALID_REQUEST"]
  /\ UNCHANGED << sessions, obj, connectOp, discOps, refreshOps, invokes, ret,
                  connectedLog, teardown, presetVars >>

\* POST /api/session/:sessionId/chat: validation, getTools(sessionId), then
\* await bedrockService.chat with the session's tools
ChatSession(sid, valid) ==
  /\ chat.pc = "idle"
  /\ sid \in Ids \cup {UnknownId}
  /\ chat' = IF ~valid
               THEN [chat EXCEPT !.pc = "error", !.code = "INVALID_REQUEST"]
             ELSE IF SessionGuard(sid) # "ok"
               THEN [chat EXCEPT !.pc = "error", !.handler = "session",
                       !.code = ChatCatch([kind |-> "McpError",
                                           code |-> SessionGuard(sid)])]
             ELSE [chat EXCEPT !.pc = "awaitChat", !.roundTrips = 1,
                               !.handler = "session", !.sessionId = sid,
                               !.tools = obj[sid].tools,
                               !.sentTools = obj[sid].tools]
  /\ UNCHANGED << sessions, obj, connectOp, discOps, refreshOps, invokes, ret,
                  connectedLog, teardown, presetVars >>

\* mcpClientManager.callTool(sessionId, ...) up to its await
StartSessionCall(sid, n) ==
  IF CallToolGuards(sid, n) # "issue"
    THEN [status |-> "rejected", sid |-> sid, err |-> CallToolGuards(sid, n)]
    ELSE [status |-> "pending", sid |-> sid, err |-> "none"]

\* bedrockService.chat resolved: chatStandalone sends the reply; chat sends
\* it when no tool call is asked for, else runs to the await of the first call
ChatReply(names) ==
  /\ chat.pc = "awaitChat"
  /\ LET tcs == ToolCalls(names, chat.nextId)
         run == chat.handler = "session" /\ names # << >>
         call == StartSessionCall(chat.sessionId, names[1])
     IN /\ chat' = IF run
                     THEN [chat EXCEPT !.pc = "awaitSessionTool",
                                       !.toolCalls = tcs, !.idx = 1,
                                       !.nextId = chat.nextId + Len(names),
                                       !.call = call]
                     ELSE [chat EXCEPT !.pc = "replied", !.code = "ok"]
        /\ invokes' = IF run THEN invokes \cup Pending(call, names[1]) ELSE invokes
  /\ UNCHANGED << sessions, obj, connectOp, discOps, refreshOps, ret,
                  connectedLog, teardown, presetVars >>

\* chat lines 122-172: the awaited tool call settled, its result is pushed
\* (flagged on failure), then the next call or continueWithToolResults
SessionToolSettle(outcome) ==
  LET tc == chat.toolCalls[chat.idx]
      failed == outcome # "ok"
      pushed == [chat EXCEPT
                   !.toolResults = Append(chat.toolResults,
                                     [toolUseId |-> tc.toolUseId, isError |-> failed]),
                   !.allToolsUsed = PushUsed(chat.allToolsUsed, tc, failed),
                   !.last = outcome]
      nextCall == StartSessionCall(chat.sessionId, chat.toolCalls[chat.idx + 1].toolName)
  IN
  /\ chat.pc = "awaitSessionTool"
  /\ IF chat.call.status = "rejected"
       THEN outcome = chat.call.err
       ELSE outcome \in {"ok", "isError", "throws"}
  /\ IF chat.idx < Len(chat.toolCalls)
       THEN /\ chat' = [pushed EXCEPT !.idx = chat.idx + 1, !.call = nextCall]
            /\ invokes' = (invokes \ Pending(chat.call, tc.toolName))
                            \cup Pending(nextCall,
                                         chat.toolCalls[chat.idx + 1].toolName)
       ELSE /\ chat' = [pushed EXCEPT !.pc = "awaitContinue",
                                      !.roundTrips = chat.roundTrips + 1,
                                      !.call = NoCall,
                                      !.allToolCalls = chat.toolCalls,
                                      !.allToolResults = pushed.toolResults]
            /\ invokes' = invokes \ Pending(chat.call, tc.toolName)
  /\ UNCHANGED << sessions, obj, connectOp, discOps, refreshOps, ret,
                  connectedLog, teardown, presetVars >>

\* continueWithToolResults of chat resolved: finalResponse.message is the reply
ContinueReply ==
  /\ chat.pc = "awaitContinue"
  /\ chat' = [chat EXCEPT !.pc = "replied", !.code = "ok"]
  /\ UNCHANGED << sessions, obj, connectOp, discOps, refreshOps, invokes, ret,
                  connectedLog, teardown, presetVars >>

\* a Completion Service call of chatStandalone or chat rejected
ChatFail(e) ==
  /\ chat.pc \in {"awaitChat", "awaitContinue"}
  /\ chat' = [chat EXCEPT !.pc = "error", !.code = ChatCatch(BedrockCatch(e))]
  /\ UNCHANGED << sessions, obj, connectOp, discOps, refreshOps, invokes, ret,
                  connectedLog, teardown, presetVars >>

\* the three chat handlers
NextHandlers ==
  \/ NextChat
  \/ \E valid \in BOOLEAN : ChatStandalone(valid)
  \/ \E sid \in 0..MaxSessions, valid \in BOOLEAN : ChatSession(sid, valid)
  \/ \E names \in Replies : ChatReply(names)
  \/ \E outcome \in ToolOutcomes : SessionToolSettle(outcome)
  \/ ContinueReply
  \/ \E e \in SendErrors : ChatFail(e)

SpecHandlers == InitChat /\ [][NextHandlers]_vars

\* C21: whenever a Completion Service round-trip fails (the first call or a
\* continuation, in chatStandalone, chat or chatAggregated), whatever it
\* failed with, the request is answered BEDROCK_ERROR and no reply is sent.
C21_RoundTripFailureIsBedrockError ==
  [][ \A e \in SendErrors :
        (chat.pc \in {"awaitLlm", "awaitChat", "awaitContinue"}
           /\ (LlmFail(e) \/ ChatFail(e)))
          => chat'.pc = "error" /\ chat'.code = "BEDROCK_ERROR" ]_vars

C21_Witness ==
  /\ chat.pc = "error" /\ chat.code = "BEDROCK_ERROR"
  /\ chat.handler = "session" /\ chat.roundTrips = 2
  /\ chat.allToolsUsed # << >>


\* ------------------------------------------------------------ disconnectAll
SnapshotKeys_Mut == { id \in SeqToSet(sessions) : obj[id].status = "connected" }

\* Array.from(this.sessions.keys()) at the time of the call
SnapshotKeys == SeqToSet(sessions)

\* disconnectAll: every disconnect of the map runs up to its await
\* transport.close(); with no session the Promise.all resolves at once
DisconnectAll ==
  /\ teardown.st = "idle"
  /\ obj' = [id \in Ids |-> IF id \in SnapshotKeys
                              THEN [obj[id] EXCEPT !.closeAsked = TRUE]
                              ELSE obj[id]]
  /\ discOps' = discOps \cup
                  { [sid |-> id, caller |-> "all", pc |-> "closing"] :
                      id \in SnapshotKeys }
  /\ teardown' = [st |-> IF SnapshotKeys = {} THEN "resolved" ELSE "closing",
                  keys |-> SnapshotKeys, born |-> Len(obj)]
  /\ Disturb
  /\ UNCHANGED << sessions, connectOp, refreshOps, invokes, ret, connectedLog,
                  presetSessions, fanout, chat >>

\* Promise.all(disconnectPromises) resolved: every disconnect has settled
DisconnectAllJoin ==
  /\ teardown.st = "closing"
  /\ \A d \in discOps : d.caller = "all" => d.pc = "done"
  /\ discOps' = { d \in discOps : d.caller # "all" }
  /\ teardown' = [teardown EXCEPT !.st = "resolved"]
  /\ UNCHANGED << sessions, obj, connectOp, refreshOps, invokes, ret,
                  connectedLog, presetVars, chat >>

\* graceful shutdown racing with connects
NextTeardown ==
  \/ ConnectSse("ok")
  \/ \E id \in 1..MaxSessions + 1 :
       \/ HandshakeOk(id)
       \/ HandshakeFail(id, FALSE)
       \/ ListToolsOk(id, << Tool("echo", 1) >>)
       \/ ListToolsFail(id)
       \/ ConnectCatch(id)
       \/ ConnectCleanup(id)
       \/ ConnectReturn(id)
  \/ \E d \in discOps, closeOk \in BOOLEAN : DisconnectSettle(d, closeOk)
  \/ DisconnectAll
  \/ DisconnectAllJoin

SpecTeardown == Init /\ [][NextTeardown]_vars

\* C22: once disconnectAll has resolved, every session that existed when it
\* was called (connected, or with its connect still in flight) has had its
\* transport asked to close and is out of the registry, whether or not the
\* closes succeeded; if no connect was started after the call the registry is
\* empty.
C22_TeardownEmptiesRegistry ==
  teardown.st = "resolved"
    => /\ \A id \in 1..teardown.born : ~InRegistry(id)
       /\ \A id \in teardown.keys : obj[id].closeAsked
       /\ Len(obj) = teardown.born => Len(sessions) = 0

C22_Witness ==
  /\ teardown.st = "resolved"
  /\ Cardinality(teardown.keys) = 2
  /\ \E id \in teardown.keys : obj[id].status = "connected"
  /\ \E id \in teardown.keys : connectOp[id].pc = "failed"
  /\ sessions = << >>


\* C23: a session in the registry has status connected only once its tool
\* discovery has succeeded and the list is stored, and a status becomes error
\* only from connecting.
C23_ConnectedOnlyAfterDiscovery ==
  [][ /\ \A id \in SeqToSet(sessions') :
           obj'[id].status = "connected"
             => connectOp'[id].pc \in {"resolved", "returned"}
      /\ \A id \in Ids :
           (obj'[id].status = "error" /\ obj[id].status # "error")
             => obj[id].status = "connecting" ]_vars


\* C24: a session object whose status is disconnected or error keeps that
\* status in every later step.
C24_TerminalStatusIsFinal ==
  [][ \A id \in Ids :
        obj[id].status \in {"disconnected", "error"}
          => obj'[id].status = obj[id].status ]_vars


\* C25: every stdio session in the registry whose child process has been
\* spawned has its pid recorded.
C25_PidRecordedOnceSpawned ==
  \A id \in SeqToSet(sessions) :
    (obj[id].transportType = "stdio" /\ obj[id].spawned) => obj[id].pid


\* C26: when the first reply of the Completion Service asks for no tool call,
\* chatAggregated answers with that reply at once: no tool is invoked, no
\* continuation call is made, and toolsUsed is absent from the response.
C26_NoToolCallsEndsTheTurn ==
  [][ (chat.pc = "awaitLlm" /\ chat.roundTrips = 1 /\ LlmReply(<< >>))
        => /\ chat'.pc = "replied" /\ chat'.code = "ok"
           /\ chat'.roundTrips = 1 /\ chat'.iterations = 0
           /\ chat'.call = NoCall /\ invokes' = invokes
           /\ chat'.allToolCalls = << >>
           /\ ~toolsUsed'.present ]_vars

C26_Witness ==
  /\ chat.handler = "aggregated" /\ chat.pc = "replied"
  /\ chat.roundTrips = 1 /\ chat.iterations = 0
  /\ chat.tools # << >>
  /\ ~toolsUsed.present


\* the tools getAllTools emits for session sid, without the session tag
SeenOf(all, sid) ==
  LET FromSid(t) == t.sessionId = sid
      mine == SelectSeq(all, FromSid)
  IN [i \in 1..Len(mine) |-> Tool(mine[i].name, mine[i].desc)]

\* C27: a session's cached tool list changes only by being replaced by the
\* complete list a discovery returned, in one step; what getTools and
\* getAllTools read for a connected session is, after every step that touches
\* the registry or a session, the complete previous list or the complete new one.
C27_ToolListReplacedWhole ==
  [][ (obj' # obj \/ sessions' # sessions) =>
      \A sid \in Ids :
        /\ obj'[sid].tools # obj[sid].tools
             => \E tl \in ToolLists :
                  /\ obj'[sid].tools = tl
                  /\ ListToolsOk(sid, tl) \/ RefreshSettle(sid, TRUE, tl)
        /\ (sid \in SeqToSet(sessions') /\ obj'[sid].status = "connected")
             => /\ obj'[sid].tools \in {obj[sid].tools} \cup ToolLists
                /\ SeenOf(getAllTools', sid) = obj'[sid].tools ]_vars

C27_Witness ==
  /\ ret.op = "refresh" /\ ret.code = "ok"
  /\ refreshOps = {}
  /\ \E sid \in SeqToSet(sessions) :
       /\ obj[sid].status = "connected"
       /\ connectOp[sid].pc = "returned"
       /\ obj[sid].tools = << Tool("echo", 1) >>
       /\ SeenOf(getAllTools, sid) = << Tool("echo", 1) >>


\* C28: however connectPreset calls on one preset interleave, at most one
\* session opened for the preset is in the registry, and a connected session
\* whose connectPreset call has returned is the one the preset maps to.
\* (Every connectPreset call of SpecPreset names the preset of CalledPresets.)
C28_OneSessionPerPreset ==
  \A p \in CalledPresets :
    LET made == { id \in Ids : connectOp[id].caller = "preset" /\ InRegistry(id) }
    IN /\ Cardinality(made) <= 1
       /\ \A id \in made :
            (obj[id].status = "connected" /\ connectOp[id].pc = "returned"
               /\ ~\E o \in presetOps : o.sid = id)
              => presetSessions[p] = id


\* C29: when disconnectPreset(p) returns after closing a session, a mapping
\* of p to a different session, made while the close was in flight, is still
\* there.
C29_DisconnectKeepsNewerMapping ==
  [][ \A d \in discOps :
        (/\ d.caller \in PresetIds
         /\ d.pc = "done"
         /\ presetSessions[d.caller] \notin {NoSession, d.sid}
         /\ DisconnectPresetFinally(d))
          => presetSessions'[d.caller] = presetSessions[d.caller] ]_vars


\* C30: when a connect operation returns a session id, that session is in
\* the registry with status connected.
C30_ReturnedSessionIsLive ==
  [][ \A id \in Ids :
        (connectOp[id].pc = "resolved" /\ ConnectReturn(id))
          => id \in SeqToSet(sessions') /\ obj'[id].status = "connected" ]_vars


\* the session whose descriptor of n the deduplication keeps: the tag of the
\* first entry named n in getAllTools
KeptOwner(all, n) ==
  all[CHOOSE i \in 1..Len(all) :
        all[i].name = n /\ \A j \in 1..(i - 1) : all[j].name # n].sessionId

\* C31: in every registry state, for every tool name of the deduplicated tool
\* set, findSessionForTool returns the session whose descriptor the
\* deduplication kept, and the descriptor shown is that session's.
C31_PresentationMatchesRouting ==
  \A i \in 1..Len(toolsForLlm) :
    LET n == toolsForLlm[i].name IN
    /\ findSessionForTool(n) # NoSession
    /\ findSessionForTool(n) = KeptOwner(getAllTools, n)
    /\ toolsForLlm[i].desc = DescOf(obj[findSessionForTool(n)].tools, n)

C31_Witness ==
  \E a, b \in Exposers("echo") :
     /\ a # b
     /\ DescOf(obj[a].tools, "echo") # DescOf(obj[b].tools, "echo")
     /\ findSessionForTool("echo") = a
     /\ KeptOwner(getAllTools, "echo") = a
     /\ DescOf(toolsForLlm, "echo") = DescOf(obj[a].tools, "echo")


\* C32: no row of the registry ever has status disconnected: every row that
\* getSessionInfo / getAllSessions can see is connecting, connected or (during
\* the cleanup of a failed connect) error.
C32_NoDisconnectedRow ==
  \A id \in SeqToSet(sessions) : obj[id].status \in {"connecting", "connected", "error"}

C32_Witness ==
  /\ ret.op = "disconnect"
  /\ ret.code = "ok"
  /\ ret.sid \in Ids
  /\ obj[ret.sid].status = "disconnected"
  /\ ~InRegistry(ret.sid)
  /\ sessions # << >>


\* C33: a refreshTools whose listTools call fails raises TOOL_DISCOVERY_FAILED
\* and writes nothing: the session's row, its status and its cached tool list
\* are what they were before the failure, so a session that was in the
\* registry and connected stays so with the same list.
C33_FailedRefreshKeepsSession ==
  [][ \A sid \in refreshOps \ refreshOps' :
        ret'.code # "ok" =>
          /\ ret'.op = "refresh"
          /\ ret'.code = "TOOL_DISCOVERY_FAILED"
          /\ sessions' = sessions
          /\ obj'[sid].status = obj[sid].status
          /\ obj'[sid].tools = obj[sid].tools
          /\ (InRegistry(sid) /\ obj[sid].status = "connected"
                => InRegistry(sid)' /\ obj'[sid].status = "connected") ]_vars

C33_Witness ==
  /\ ret.op = "refresh"
  /\ ret.code = "TOOL_DISCOVERY_FAILED"
  /\ refreshOps = {}
  /\ Ids = {1}
  /\ InRegistry(1)
  /\ obj[1].status = "connected"
  /\ obj[1].tools = << Tool("echo", 2), Tool("add", 2) >>


\* a continueWithToolResults call of chatAggregated is awaited
ContinueInFlight ==
  chat.handler = "aggregated" /\ chat.pc = "awaitLlm" /\ chat.roundTrips > 1

\* C34: in every continueWithToolResults call of chatAggregated the
\* accumulated call list and result list have the same length, the i-th result
\* carries the toolUseId of the i-th call, and every call id the Completion
\* Service has requested so far has exactly one result.
C34_ResultsPairWithCalls ==
  ContinueInFlight =>
    /\ Len(chat.allToolCalls) = Len(chat.allToolResults)
    /\ \A i \in 1..Len(chat.allToolCalls) :
         (i <= Len(chat.allToolResults)
            => chat.allToolResults[i].toolUseId = chat.allToolCalls[i].toolUseId)
    /\ \A id \in 1..(chat.nextId - 1) :
         Cardinality({ i \in 1..Len(chat.allToolResults) :
                         chat.allToolResults[i].toolUseId = id }) = 1

C34_Witness ==
  /\ ContinueInFlight
  /\ chat.roundTrips > 2
  /\ Len(chat.allToolCalls) >= 4
  /\ \E i, j \in 1..Len(chat.allToolResults) :
       chat.allToolResults[i].isError /\ ~chat.allToolResults[j].isError


\* C35: the max-iterations warning is emitted only when the loop was stopped
\* by the ceiling while the last reply still asked for tool calls; a turn in
\* which the Completion Service stops asking, on any iteration up to and
\* including the last allowed one, is not flagged.
C35_WarningOnlyWhenCutShort ==
  (chat.handler = "aggregated" /\ chat.pc = "replied" /\ chat.warned)
    => chat.toolCalls # << >>


\* C36: a session opened through connectWithConfig records as its
\* transportType the kind named in the transport config: sse, stdio or
\* streamable-http.
C36_TransportTypeIsConfigured ==
  \A op \in presetOps :
    op.sid \in Ids => obj[op.sid].transportType = PresetTransport[op.p]

====
